---- MODULE Spec2Model ----
(***************************************************************************)
(* Model of the char_escape crate (src/src/lib.rs): an Escaper is an       *)
(* escape character plus an ordered rule table; escape, unescape and       *)
(* is_escaped are scans over a string.  A string is a sequence of chars,   *)
(* a char is a one-character TLA+ string.                                  *)
(***************************************************************************)
EXTENDS Naturals, Sequences, FiniteSets

\* ------------------------------------------------------------------ bounds

\* The alphabet the inputs are drawn from.
Chars == {"#", "a", "b"}

\* The escape characters tried.  The code only ever compares characters for
\* equality, so which of them marks an escape sequence changes nothing.
EscapeChars == {"#", "a"}

\* Longest rule table handed to a constructor.
MaxRules == 2

\* Longest string handed to escape / unescape / is_escaped.
MaxLen == 3

RECURSIVE SeqsUpTo(_, _)
SeqsUpTo(S, n) ==
    IF n = 0 THEN {<<>>}
    ELSE LET shorter == SeqsUpTo(S, n - 1)
         IN  shorter \cup {Append(q, e) : q \in shorter, e \in S}

Strings == SeqsUpTo(Chars, MaxLen)

\* struct Rule { unescaped, escaped }
Rule == [unescaped : Chars, escaped : Chars]

RuleTables == SeqsUpTo(Rule, MaxRules)

\* ------------------------------------------------------------------- state

VARIABLES
    args,   \* the escape character and rule list handed to the constructor
    ctor,   \* which constructor ran: "none", "new", "new_unchecked", "escaper"
    built,  \* what it returned: Ok(Escaper) or Err(MissingEscapeCharRule)
    call    \* the last method call on the Escaper and what it returned

vars == <<args, ctor, built, call>>

\* ------------------------------------------------------------ constructors

\* struct Escaper { escape_char, rules }
Escaper(ec, rules) == [escape_char |-> ec, rules |-> rules]

NoEscaper == Escaper("#", <<>>)

contains_escape_char_rule_escaped(ec, rules) ==
    \E i \in 1..Len(rules) : rules[i].escaped = ec

contains_escape_char_rule(ec, rules) ==
    \E i \in 1..Len(rules) : rules[i].unescaped = ec

new_unchecked(ec, rules) == Escaper(ec, rules)

new(ec, rules) ==
    IF contains_escape_char_rule(ec, rules)
    THEN [ok |-> TRUE, val |-> Escaper(ec, rules)]
    ELSE [ok |-> FALSE, val |-> NoEscaper]

\* escaper!: the listed rules, then the implicit rule escape_char => escape_char
escaper_implicit_first(ec, rules) ==
    new_unchecked(ec, <<[unescaped |-> ec, escaped |-> ec]>> \o rules)

escaper(ec, rules) ==
    new_unchecked(ec, Append(rules, [unescaped |-> ec, escaped |-> ec]))

\* ----------------------------------------------------------------- lookups

\* Iterator::find over the rule table: the index of the first rule at or
\* after i that P accepts, 0 when there is none.
RECURSIVE find_unescaped(_, _, _)
find_unescaped(rules, c, i) ==
    IF i > Len(rules) THEN 0
    ELSE IF rules[i].unescaped = c THEN i
    ELSE find_unescaped(rules, c, i + 1)

RECURSIVE find_escaped(_, _, _)
find_escaped(rules, c, i) ==
    IF i > Len(rules) THEN 0
    ELSE IF rules[i].escaped = c THEN i
    ELSE find_escaped(rules, c, i + 1)

\* the same searches, keeping the last match instead of the first
RECURSIVE rfind_unescaped(_, _, _)
rfind_unescaped(rules, c, i) ==
    IF i = 0 THEN 0
    ELSE IF rules[i].unescaped = c THEN i
    ELSE rfind_unescaped(rules, c, i - 1)

RECURSIVE rfind_escaped(_, _, _)
rfind_escaped(rules, c, i) ==
    IF i = 0 THEN 0
    ELSE IF rules[i].escaped = c THEN i
    ELSE rfind_escaped(rules, c, i - 1)

\* Option<char>
None == [some |-> FALSE, val |-> "#"]
Some(c) == [some |-> TRUE, val |-> c]

escape_char_last(self, c) ==
    LET i == rfind_unescaped(self.rules, c, Len(self.rules))
    IN  IF i = 0 THEN None ELSE Some(self.rules[i].escaped)

\* escape_char handing back the rule's unescaped field
escape_char_swapped(self, c) ==
    LET i == find_unescaped(self.rules, c, 1)
    IN  IF i = 0 THEN None ELSE Some(self.rules[i].unescaped)

\* fn escape_char(&self, c) -> Option<char>
escape_char(self, c) ==
    LET i == find_unescaped(self.rules, c, 1)
    IN  IF i = 0 THEN None ELSE Some(self.rules[i].escaped)

\* Result<char, UnescapeError>
unescape_char_last(self, c) ==
    LET i == rfind_escaped(self.rules, c, Len(self.rules))
    IN  IF i = 0
        THEN [status |-> "Invalid", out |-> <<self.escape_char, c>>]
        ELSE [status |-> "Ok", out |-> <<self.rules[i].unescaped>>]

\* unescape_char handing back the rule's escaped field
unescape_char_swapped(self, c) ==
    LET i == find_escaped(self.rules, c, 1)
    IN  IF i = 0
        THEN [status |-> "Invalid", out |-> <<self.escape_char, c>>]
        ELSE [status |-> "Ok", out |-> <<self.rules[i].escaped>>]

\* fn unescape_char(&self, c) -> Result<char, UnescapeError>
unescape_char(self, c) ==
    LET i == find_escaped(self.rules, c, 1)
    IN  IF i = 0
        THEN [status |-> "Invalid", out |-> <<self.escape_char, c>>]
        ELSE [status |-> "Ok", out |-> <<self.rules[i].unescaped>>]

\* ---------------------------------------------------------------- is_escaped

RECURSIVE is_escaped_loop(_, _, _, _)
is_escaped_loop(self, s, i, previous_was_escape_char) ==
    IF i > Len(s) THEN ~previous_was_escape_char
    ELSE IF previous_was_escape_char
    THEN IF \E k \in 1..Len(self.rules) : self.rules[k].escaped = s[i]
         THEN is_escaped_loop(self, s, i + 1, FALSE)
         ELSE FALSE
    ELSE IF s[i] = self.escape_char
    THEN is_escaped_loop(self, s, i + 1, TRUE)
    ELSE IF \E k \in 1..Len(self.rules) : self.rules[k].unescaped = s[i]
    THEN FALSE
    ELSE is_escaped_loop(self, s, i + 1, FALSE)

\* is_escaped without the final test for a pending escape character
RECURSIVE is_escaped_loop_no_tail(_, _, _, _)
is_escaped_loop_no_tail(self, s, i, previous_was_escape_char) ==
    IF i > Len(s) THEN TRUE
    ELSE IF previous_was_escape_char
    THEN IF \E k \in 1..Len(self.rules) : self.rules[k].escaped = s[i]
         THEN is_escaped_loop_no_tail(self, s, i + 1, FALSE)
         ELSE FALSE
    ELSE IF s[i] = self.escape_char
    THEN is_escaped_loop_no_tail(self, s, i + 1, TRUE)
    ELSE IF \E k \in 1..Len(self.rules) : self.rules[k].unescaped = s[i]
    THEN FALSE
    ELSE is_escaped_loop_no_tail(self, s, i + 1, FALSE)

\* is_escaped without the test for a bare character that has a rule
RECURSIVE is_escaped_loop_no_raw(_, _, _, _)
is_escaped_loop_no_raw(self, s, i, previous_was_escape_char) ==
    IF i > Len(s) THEN ~previous_was_escape_char
    ELSE IF previous_was_escape_char
    THEN IF \E k \in 1..Len(self.rules) : self.rules[k].escaped = s[i]
         THEN is_escaped_loop_no_raw(self, s, i + 1, FALSE)
         ELSE FALSE
    ELSE IF s[i] = self.escape_char
    THEN is_escaped_loop_no_raw(self, s, i + 1, TRUE)
    ELSE is_escaped_loop_no_raw(self, s, i + 1, FALSE)

is_escaped_no_raw(self, s) == is_escaped_loop_no_raw(self, s, 1, FALSE)

is_escaped_no_tail(self, s) == is_escaped_loop_no_tail(self, s, 1, FALSE)

\* pub fn is_escaped(&self, s) -> bool
is_escaped(self, s) == is_escaped_loop(self, s, 1, FALSE)

\* -------------------------------------------------------------------- escape

RECURSIVE escape_loop(_, _, _, _)
escape_loop(self, s, i, ret) ==
    IF i > Len(s) THEN ret
    ELSE LET e == escape_char(self, s[i])
         IN  escape_loop(self, s, i + 1,
                 IF e.some
                 THEN Append(Append(ret, self.escape_char), e.val)
                 ELSE Append(ret, s[i]))

\* pub fn escape(&self, s) -> String; debug_assert! is compiled in only when
\* the build has debug assertions, and then a failing one panics.
escape(self, s, debug_assertions) ==
    LET ret == escape_loop(self, s, 1, <<>>)
    IN  IF debug_assertions /\ ~is_escaped(self, ret)
        THEN [status |-> "panic", out |-> <<>>]
        ELSE [status |-> "Ok", out |-> ret]

\* ------------------------------------------------------------------ unescape

RECURSIVE unescape_loop(_, _, _, _, _)
unescape_loop(self, s, i, ret, previous_was_escape_char) ==
    IF i > Len(s)
    THEN IF previous_was_escape_char
         THEN [status |-> "Incomplete", out |-> <<>>]
         ELSE [status |-> "Ok", out |-> ret]
    ELSE IF previous_was_escape_char
    THEN LET r == unescape_char(self, s[i])
         IN  IF r.status = "Ok"
             THEN unescape_loop(self, s, i + 1, ret \o r.out, FALSE)
             ELSE r
    ELSE IF s[i] = self.escape_char
    THEN unescape_loop(self, s, i + 1, ret, TRUE)
    ELSE unescape_loop(self, s, i + 1, Append(ret, s[i]), FALSE)

\* unescape that keeps scanning past an unknown sequence
RECURSIVE unescape_loop_lenient(_, _, _, _, _)
unescape_loop_lenient(self, s, i, ret, previous_was_escape_char) ==
    IF i > Len(s)
    THEN IF previous_was_escape_char
         THEN [status |-> "Incomplete", out |-> <<>>]
         ELSE [status |-> "Ok", out |-> ret]
    ELSE IF previous_was_escape_char
    THEN LET r == unescape_char(self, s[i])
         IN  IF r.status = "Ok"
             THEN unescape_loop_lenient(self, s, i + 1, ret \o r.out, FALSE)
             ELSE unescape_loop_lenient(self, s, i + 1, Append(ret, s[i]), FALSE)
    ELSE IF s[i] = self.escape_char
    THEN unescape_loop_lenient(self, s, i + 1, ret, TRUE)
    ELSE unescape_loop_lenient(self, s, i + 1, Append(ret, s[i]), FALSE)

unescape_lenient(self, s) == unescape_loop_lenient(self, s, 1, <<>>, FALSE)

\* pub fn unescape(&self, s) -> Result<String, UnescapeError>
unescape(self, s) == unescape_loop(self, s, 1, <<>>, FALSE)

\* ------------------------------------------------------------------- actions

NoCall == [op |-> "none", arg |-> <<>>, status |-> "none", out |-> <<>>]

Init ==
    /\ args \in [escape_char : EscapeChars, rules : RuleTables]
    /\ ctor = "none"
    /\ built = [ok |-> FALSE, val |-> NoEscaper]
    /\ call = NoCall

\* Escaper::new(args.escape_char, &args.rules)
New ==
    /\ ctor = "none"
    /\ ctor' = "new"
    /\ built' = new(args.escape_char, args.rules)
    /\ UNCHANGED <<args, call>>

\* Escaper::new_unchecked(args.escape_char, &args.rules)
NewUnchecked ==
    /\ ctor = "none"
    /\ ctor' = "new_unchecked"
    /\ built' = [ok |-> TRUE, val |-> new_unchecked(args.escape_char, args.rules)]
    /\ UNCHANGED <<args, call>>

\* escaper! { escape_char = .., rules = [..] }: the macro takes one rule or more
EscaperMacro ==
    /\ ctor = "none"
    /\ Len(args.rules) >= 1
    /\ ctor' = "escaper"
    /\ built' = [ok |-> TRUE, val |-> escaper(args.escape_char, args.rules)]
    /\ UNCHANGED <<args, call>>

Escape ==
    /\ ctor # "none"
    /\ call.op = "none"
    /\ built.ok
    /\ \E s \in Strings, debug_assertions \in BOOLEAN :
          LET r == escape(built.val, s, debug_assertions)
          IN  call' = [op |-> "escape", arg |-> s,
                       status |-> r.status, out |-> r.out]
    /\ UNCHANGED <<args, ctor, built>>

Unescape ==
    /\ ctor # "none"
    /\ call.op = "none"
    /\ built.ok
    /\ \E s \in Strings :
          LET r == unescape(built.val, s)
          IN  call' = [op |-> "unescape", arg |-> s,
                       status |-> r.status, out |-> r.out]
    /\ UNCHANGED <<args, ctor, built>>

IsEscaped ==
    /\ ctor # "none"
    /\ call.op = "none"
    /\ built.ok
    /\ \E s \in Strings :
          call' = [op |-> "is_escaped", arg |-> s,
                   status |-> IF is_escaped(built.val, s) THEN "true" ELSE "false",
                   out |-> <<>>]
    /\ UNCHANGED <<args, ctor, built>>

Next ==
    \/ New
    \/ NewUnchecked
    \/ EscaperMacro
    \/ Escape
    \/ Unescape
    \/ IsEscaped

Spec == Init /\ [][Next]_vars

\* ------------------------------------------------------- reference notions

Self == built.val

Raws(rules) == {rules[i].unescaped : i \in DOMAIN rules}

Escapeds(rules) == {rules[i].escaped : i \in DOMAIN rules}

UniqueRaw(rules) ==
    \A i, j \in DOMAIN rules : rules[i].unescaped = rules[j].unescaped => i = j

UniqueEscaped(rules) ==
    \A i, j \in DOMAIN rules : rules[i].escaped = rules[j].escaped => i = j

HasSelfRule(e) == e.escape_char \in Raws(e.rules)

WellFormed(e) == UniqueRaw(e.rules) /\ UniqueEscaped(e.rules) /\ HasSelfRule(e)

\* the least index of a rule for the raw character c / the escaped character c
FirstRaw(rules, c) ==
    CHOOSE i \in DOMAIN rules :
        /\ rules[i].unescaped = c
        /\ \A j \in DOMAIN rules : rules[j].unescaped = c => i <= j

FirstEscaped(rules, c) ==
    CHOOSE i \in DOMAIN rules :
        /\ rules[i].escaped = c
        /\ \A j \in DOMAIN rules : rules[j].escaped = c => i <= j

RECURSIVE Concat(_, _)
Concat(pieces, i) ==
    IF i > Len(pieces) THEN <<>> ELSE pieces[i] \o Concat(pieces, i + 1)

\* escape, by first match: every character with a rule becomes the escape
\* character and the escaped character of its first rule
EscapedByFirstMatch(e, x) ==
    Concat([i \in 1..Len(x) |->
               IF x[i] \in Raws(e.rules)
               THEN <<e.escape_char, e.rules[FirstRaw(e.rules, x[i])].escaped>>
               ELSE <<x[i]>>], 1)

\* Whether a scan that never stops is waiting for the second character of an
\* escape sequence after reading s[1..i].
RECURSIVE Pending(_, _, _)
Pending(e, s, i) ==
    IF i = 0 THEN FALSE
    ELSE ~Pending(e, s, i - 1) /\ s[i] = e.escape_char

\* the positions holding the second character of an unknown escape sequence
Offenses(e, s) ==
    {i \in 1..Len(s) : Pending(e, s, i - 1) /\ s[i] \notin Escapeds(e.rules)}

Min(S) == CHOOSE i \in S : \A j \in S : i <= j

\* unescape, by first match
UnescapedByFirstMatch(e, s) ==
    Concat([i \in 1..Len(s) |->
               IF Pending(e, s, i - 1)
               THEN <<e.rules[FirstEscaped(e.rules, s[i])].unescaped>>
               ELSE IF s[i] = e.escape_char THEN <<>> ELSE <<s[i]>>], 1)

Ok(s) == [status |-> "Ok", out |-> s]

\* -------------------------------------------------------------------- claims

\* C1: round trip.  On a table with pairwise distinct raw characters,
\* pairwise distinct escaped characters and a rule for the escape character,
\* escape(x) returns and unescape(escape(x)) is Ok(x).
C1_RoundTrip ==
    (built.ok /\ call.op = "escape" /\ WellFormed(Self))
        => /\ call.status = "Ok"
           /\ unescape(Self, call.out) = Ok(call.arg)

C1_Witness ==
    /\ built.ok /\ call.op = "escape" /\ WellFormed(Self)
    /\ Len(Self.rules) = 2
    /\ Len(call.arg) = 3
    /\ \E i, j, k \in 1..3 :
          /\ call.arg[i] = Self.escape_char
          /\ call.arg[j] \in Raws(Self.rules) \ {Self.escape_char}
          /\ call.arg[k] \notin Raws(Self.rules)
    /\ Len(call.out) = 5

\* C2: the output of escape is escaped.  On every Escaper with a rule for the
\* escape character, duplicates allowed, escape(x) returns a string that
\* is_escaped accepts.
C2_EscapedOutputValid ==
    (built.ok /\ call.op = "escape" /\ HasSelfRule(Self))
        => /\ call.status = "Ok"
           /\ is_escaped(Self, call.out)

C2_Witness ==
    /\ built.ok /\ call.op = "escape" /\ HasSelfRule(Self)
    /\ ~UniqueRaw(Self.rules)
    /\ \E i \in 1..Len(call.arg) : call.arg[i] = Self.escape_char
    /\ \E i \in 1..Len(call.arg) : call.arg[i] \notin Raws(Self.rules)
    /\ call.status = "Ok"

\* C3: is_escaped(s) implies that unescape(s) is Ok, on every Escaper, those
\* with no rule for the escape character included.
C3_IsEscapedImpliesUnescapeOk ==
    /\ (built.ok /\ call.op = "unescape" /\ is_escaped(Self, call.arg))
           => call.status = "Ok"
    /\ (built.ok /\ call.op = "is_escaped" /\ call.status = "true")
           => unescape(Self, call.arg).status = "Ok"

C3_Witness ==
    /\ built.ok /\ call.op = "is_escaped" /\ call.status = "true"
    /\ ~HasSelfRule(Self)
    /\ \E i \in 1..Len(call.arg) : call.arg[i] = Self.escape_char
    /\ \E i \in 1..Len(call.arg) : call.arg[i] \notin Raws(Self.rules) \cup {Self.escape_char}

\* C4: escape never fails.  On every Escaper, one without a rule for the
\* escape character included, escape returns, and what it returns is the
\* input with every character that has a rule replaced, the escape character
\* copied through when it has none.
C4_EscapeTotal ==
    (built.ok /\ call.op = "escape")
        => /\ call.status = "Ok"
           /\ call.out = EscapedByFirstMatch(Self, call.arg)

\* C5: new fails exactly when no rule has the escape character as its raw
\* character; otherwise the Escaper holds the escape character and the rule
\* list it was given, whatever else the table holds.
C5_ConstructionValidation ==
    ctor = "new"
        => /\ built.ok <=> args.escape_char \in Raws(args.rules)
           /\ built.ok => built.val = [escape_char |-> args.escape_char,
                                       rules |-> args.rules]

C5_Witness ==
    /\ ctor = "new" /\ built.ok
    /\ ~UniqueRaw(args.rules)
    /\ Self.rules[FirstRaw(Self.rules, Self.escape_char)].escaped # Self.escape_char
    /\ built.val.rules = args.rules

\* C6: unescape reports the first offense.  With an unknown escape sequence
\* in the input the result is Invalid of the escape character and the second
\* character of the first such sequence; with none and the input ending on a
\* lone escape character it is Incomplete; otherwise it is Ok.
C6_FirstOffense ==
    (built.ok /\ call.op = "unescape")
        => LET bad == Offenses(Self, call.arg)
           IN  IF bad # {}
               THEN /\ call.status = "Invalid"
                    /\ call.out = <<Self.escape_char, call.arg[Min(bad)]>>
               ELSE IF Pending(Self, call.arg, Len(call.arg))
               THEN call.status = "Incomplete"
               ELSE call.status = "Ok"

C6_Witness ==
    /\ built.ok /\ call.op = "unescape"
    /\ Len(call.arg) = 3
    /\ Offenses(Self, call.arg) = {2}
    /\ Pending(Self, call.arg, 3)
    /\ call.status = "Invalid"
    /\ call.out = <<Self.escape_char, call.arg[2]>>

\* Whether some input that starts with x escapes to s.  escape only appends to
\* what it has built, so the search follows the inputs whose escaped form is
\* a prefix of s.
RECURSIVE HasPreimageFrom(_, _, _)
HasPreimageFrom(e, s, x) ==
    LET ret == escape_loop(e, x, 1, <<>>)
    IN  IF ret = s
        THEN \E d \in BOOLEAN : escape(e, x, d) = Ok(s)
        ELSE /\ Len(ret) < Len(s)
             /\ Len(x) < MaxLen
             /\ ret = SubSeq(s, 1, Len(ret))
             /\ \E c \in Chars : HasPreimageFrom(e, s, Append(x, c))

\* the strings escape can return
InImage(e, s) == HasPreimageFrom(e, s, <<>>)

\* the same, trying every input
InImageOfAll(e, s) ==
    \E x \in Strings, d \in BOOLEAN : escape(e, x, d) = Ok(s)

\* every escaped character of the table is the escaped character of a rule
\* that is the first one for its raw character
NoShadowedEscaped(rules) ==
    \A k \in DOMAIN rules :
        \E j \in DOMAIN rules :
            /\ rules[j].escaped = rules[k].escaped
            /\ FirstRaw(rules, rules[j].unescaped) = j

\* The prefix search finds exactly the strings some input escapes to.
InImageAgrees ==
    (built.ok /\ call.op # "none")
        => (InImage(Self, call.arg) <=> InImageOfAll(Self, call.arg))

\* C7 as stated: on every Escaper built by new, is_escaped(s) is true exactly
\* when s is escape(x) for some x.
C7_IsEscapedIsImage ==
    (ctor = "new" /\ built.ok /\ call.op = "is_escaped")
        => (call.status = "true" <=> InImage(Self, call.arg))

\* C7 as amended: on every Escaper built by new, every string escape returns
\* is accepted by is_escaped; and when every escaped character of the table
\* belongs to a rule that is first for its raw character (so whenever the raw
\* characters are pairwise distinct), is_escaped(s) is true exactly when s is
\* escape(x) for some x.
C7_IsEscapedIsImageUnshadowed ==
    (ctor = "new" /\ built.ok /\ call.op = "is_escaped")
        => /\ InImage(Self, call.arg) => call.status = "true"
           /\ NoShadowedEscaped(Self.rules)
                 => (call.status = "true" => InImage(Self, call.arg))

C7_Witness ==
    /\ ctor = "new" /\ built.ok /\ call.op = "is_escaped"
    /\ call.status = "true"
    /\ NoShadowedEscaped(Self.rules)
    /\ ~UniqueEscaped(Self.rules)
    /\ Len(call.arg) = 3
    /\ InImage(Self, call.arg)

\* C8: first match wins.  escape replaces a character by the escape character
\* and the escaped character of the first rule for it, and unescape maps an
\* escape sequence to the raw character of the first rule with that escaped
\* character; rules sharing a character make neither call fail.
C8_FirstMatchWins ==
    /\ (built.ok /\ call.op = "escape")
           => /\ call.status = "Ok" => call.out = EscapedByFirstMatch(Self, call.arg)
              /\ HasSelfRule(Self) => call.status = "Ok"
    /\ (built.ok /\ call.op = "unescape" /\ Offenses(Self, call.arg) = {}
            /\ ~Pending(Self, call.arg, Len(call.arg)))
           => call = [op |-> "unescape", arg |-> call.arg, status |-> "Ok",
                      out |-> UnescapedByFirstMatch(Self, call.arg)]

C8_Witness ==
    /\ built.ok /\ call.op = "escape" /\ call.status = "Ok"
    /\ \E i, j \in DOMAIN Self.rules :
          /\ i < j
          /\ Self.rules[i].unescaped = Self.rules[j].unescaped
          /\ Self.rules[i].escaped # Self.rules[j].escaped
          /\ call.arg = <<Self.rules[i].unescaped, Self.rules[i].unescaped>>
          /\ call.out = <<Self.escape_char, Self.rules[i].escaped,
                          Self.escape_char, Self.rules[i].escaped>>

\* the rule escape_char => escape_char
SelfRule(ec) == [unescaped |-> ec, escaped |-> ec]

\* C9: escaper! with escape character m and rules R builds what
\* Escaper::new(m, R followed by m => m) returns, so the table always has a
\* rule for m; and a rule m => e listed in R wins over the implicit one:
\* escape turns each m into m followed by e.
C9_MacroAppendsSelfRule ==
    ctor = "escaper"
        => /\ built.ok
           /\ new(args.escape_char, Append(args.rules, SelfRule(args.escape_char)))
                 = [ok |-> TRUE, val |-> built.val]
           /\ (call.op = "escape" /\ args.escape_char \in Raws(args.rules))
                 => LET m == args.escape_char
                        e == args.rules[FirstRaw(args.rules, m)].escaped
                    IN  /\ call.status = "Ok"
                        /\ call.out =
                             Concat([i \in 1..Len(call.arg) |->
                                        IF call.arg[i] = m THEN <<m, e>>
                                        ELSE IF call.arg[i] \in Raws(args.rules)
                                        THEN <<m, args.rules[FirstRaw(args.rules, call.arg[i])].escaped>>
                                        ELSE <<call.arg[i]>>], 1)

C9_Witness ==
    /\ ctor = "escaper" /\ built.ok /\ call.op = "escape"
    /\ args.escape_char \in Raws(args.rules)
    /\ args.rules[FirstRaw(args.rules, args.escape_char)].escaped # args.escape_char
    /\ call.arg = <<args.escape_char, args.escape_char>>
    /\ call.out = <<args.escape_char,
                    args.rules[FirstRaw(args.rules, args.escape_char)].escaped,
                    args.escape_char,
                    args.rules[FirstRaw(args.rules, args.escape_char)].escaped>>

\* C10: reverse round trip.  On a table with pairwise distinct raw
\* characters, pairwise distinct escaped characters and a rule for the escape
\* character, a string s that is_escaped accepts unescapes to Ok(y) with
\* escape(y) = s.
C10_ReverseRoundTrip ==
    (built.ok /\ call.op = "unescape" /\ WellFormed(Self)
        /\ is_escaped(Self, call.arg))
        => /\ call.status = "Ok"
           /\ \A d \in BOOLEAN : escape(Self, call.out, d) = Ok(call.arg)

C10_Witness ==
    /\ built.ok /\ call.op = "unescape" /\ WellFormed(Self)
    /\ is_escaped(Self, call.arg)
    /\ Len(call.arg) = 3
    /\ Len(call.out) = 2
    /\ call.out[1] # call.out[2]
    /\ call.status = "Ok"

====
